---------------------------- MODULE Spec2Model ----------------------------
(***************************************************************************)
(* A model of fractal_app.py: the escape-time loop shared by the /light    *)
(* and /fractal handlers, the Flask server that runs the handlers one at a *)
(* time, and the cycling state of the /viewer page's script.               *)
(*                                                                         *)
(* Numbers.  A real number is held as an integer count of 1/FixScale       *)
(* units, a complex number as a pair <<re, im>> of such counts.  Every     *)
(* product and quotient is rounded down to a whole unit, which stands for  *)
(* the rounding of the float64 arithmetic of the source.                   *)
(*                                                                         *)
(* Arrays.  numpy's masked assignments act on every cell independently, so *)
(* the model keeps, of an array of n columns (rows), the first Probe       *)
(* columns (rows) and the last one.                                        *)
(***************************************************************************)
EXTENDS Integers, Sequences, FiniteSets, TLC

\* ---------------------------------------------------------------- bounds
FixScale == 16
Probe == 2
KCells == 2
NumReq == 2
LongestBudget == 8

\* ------------------------------------------------------ program constants
LightWidth == 400
LightHeight == 300
LightIter == 30
LightBound == 4
FractalBound == 50
MaxWidth == 5000
MaxHeight == 5000
MaxIter == 2000
DefaultW == 800
DefaultH == 600
DefaultIter == 100

\* --------------------------------------------------------- the arithmetic
\* a / b rounded down, for any b # 0 (Integers' \div wants b > 0)
FDiv(a, b) == IF b > 0 THEN a \div b ELSE (0 - a) \div (0 - b)

Fix(n) == n * FixScale

Min(a, b) == IF a < b THEN a ELSE b

\* an array of no cells
Empty == [p \in {} |-> 0]

\* The viewport of lines 41-42 and 80-81, in units: -2.5, 1.5, -2.0, 2.0
XMin == FDiv(Fix(-5), 2)
XMax == FDiv(Fix(3), 2)
YMin == Fix(-2)
YMax == Fix(2)

CZero == <<0, 0>>

\* z**2 + c on complex128
SqAdd(z, c) ==
    << FDiv(z[1] * z[1] - z[2] * z[2], FixScale) + c[1],
       FDiv(2 * z[1] * z[2], FixScale) + c[2] >>

\* np.abs(z) < bound
AbsLt(z, bound) == z[1] * z[1] + z[2] * z[2] < Fix(bound) * Fix(bound)

\* ------------------------------------------------------------ the kernel
\* mask = np.abs(z) < bound
MutMaskInverted(z, bound) == {p \in DOMAIN z : ~AbsLt(z[p], bound)}
Mask(z, bound) == {p \in DOMAIN z : AbsLt(z[p], bound)}

\* z[mask] = z[mask]**2 + c[mask]
MutUpdateZAll(z, c, mask) == [p \in DOMAIN z |-> SqAdd(z[p], c[p])]
UpdateZ(z, c, mask) ==
    [p \in DOMAIN z |-> IF p \in mask THEN SqAdd(z[p], c[p]) ELSE z[p]]

\* fractal[mask] = i
MutUpdateFractalNext(fractal, mask, i) ==
    [p \in DOMAIN fractal |-> IF p \in mask THEN i + 1 ELSE fractal[p]]
MutUpdateFractalAll(fractal, mask, i) == [p \in DOMAIN fractal |-> i]
UpdateFractal(fractal, mask, i) ==
    [p \in DOMAIN fractal |-> IF p \in mask THEN i ELSE fractal[p]]

\* np.zeros(shape): a fresh array over `cells`, whatever the freed memory
\* `garbage` it is carved from holds
MutNpEmpty(cells, garbage, zero) ==
    [p \in cells |-> IF p \in DOMAIN garbage THEN garbage[p] ELSE zero]
NpZeros(cells, garbage, zero) == [p \in cells |-> zero]

\* ------------------------------------------------------------- the state
VARIABLES
    kc, kz, kfractal, ki, kmax, kbound,  \* one run of the loop on a given grid
    req,      \* the server: each request's handler (position and locals)
    queue,    \* the server: connections waiting to be accepted, oldest first
    heap,     \* the server: the arrays the last finished handler freed
    currentIter, cycleDirection, isCycling,   \* the viewer's cycling state
    cycleSpeed,     \* in fifths of a millisecond
    cycleTimer,     \* the id setTimeout returned, 0 for undefined or null
    lastLoadTime,   \* in milliseconds
    failedLoads,
    timers,         \* the viewer: ids of the pending timeouts
    image,          \* the viewer: the <img>'s current request
    started         \* the viewer: init() has run

kvars == <<kc, kz, kfractal, ki, kmax, kbound>>
svars == <<req, queue, heap>>
vvars == <<currentIter, cycleDirection, isCycling, cycleSpeed, cycleTimer,
           lastLoadTime, failedLoads, timers, image, started>>
vars == <<kc, kz, kfractal, ki, kmax, kbound, req, queue, heap,
          currentIter, cycleDirection, isCycling, cycleSpeed, cycleTimer,
          lastLoadTime, failedLoads, timers, image, started>>

\* ------------------------------------------------------------ the server
\* the columns (rows) kept of an axis of n samples
Tracked(n) ==
    (0 .. Min(n, Probe) - 1) \cup (IF n >= 1 THEN {n - 1} ELSE {})

\* np.linspace(start, stop, n)[i]
Linspace(start, stop, n, i) ==
    IF n = 1 THEN start ELSE start + FDiv(i * (stop - start), n - 1)

\* c = x[:, np.newaxis] + 1j * y[np.newaxis, :]
Grid(x0, x1, y0, y1, width, height) ==
    [p \in Tracked(width) \X Tracked(height) |->
        <<Linspace(x0, x1, width, p[1]), Linspace(y0, y1, height, p[2])>>]

\* fractal.T, the array handed to imshow
Transpose(a) == [q \in {<<p[2], p[1]>> : p \in DOMAIN a} |-> a[<<q[2], q[1]>>]]

\* request.args.get(key, default), converted by int() or float()
ArgGet(args, key, default) ==
    IF key \in DOMAIN args THEN args[key] ELSE default

\* width = min(width, 5000) and the like
MutClampNone(v, max) == v
Clamp(v, max) == Min(v, max)

Requests == 1 .. NumReq

NoLocals ==
    [width |-> 0, height |-> 0, zoom |-> 0, max_iter |-> 0, bound |-> 0,
     c |-> Empty, z |-> Empty, fractal |-> Empty, i |-> 0]

NewRequest ==
    [pc |-> "new", route |-> "", args |-> Empty, loc |-> NoLocals,
     status |-> 0, body |-> Empty]

ServerIdleInit ==
    /\ req = [r \in Requests |-> NewRequest]
    /\ queue = <<>>
    /\ heap = [z |-> Empty, fractal |-> Empty]

InHandler(r) == req[r].pc \in {"parse", "grid", "loop", "render"}

\* app.run(threaded=False): the server takes the next connection only when
\* no handler is running
MutThreaded == TRUE
ServerIdle == \A r \in Requests : ~InHandler(r)

\* a client connects; connections are numbered in their order of arrival
Arrive(r) ==
    /\ req[r].pc = "new"
    /\ \A q \in Requests : q < r => req[q].pc # "new"
    /\ req' = [req EXCEPT ![r].pc = "queued"]
    /\ queue' = Append(queue, r)
    /\ UNCHANGED <<heap, kvars, vvars>>

\* the server accepts the oldest waiting connection and routes its URL
Accept(r, routes) ==
    /\ queue # <<>>
    /\ r = Head(queue)
    /\ ServerIdle
    /\ \E route \in routes :
          req' = [req EXCEPT ![r].pc = IF route = "light" THEN "grid" ELSE "parse",
                             ![r].route = route]
    /\ queue' = Tail(queue)
    /\ UNCHANGED <<heap, kvars, vvars>>

\* generate_fractal, lines 68-78: read the query, clamp it
ParseArgs(r, argSet) ==
    /\ req[r].pc = "parse"
    /\ \E args \in argSet :
          req' = [req EXCEPT
              ![r].pc = "grid",
              ![r].args = args,
              ![r].loc = [NoLocals EXCEPT
                  !.width = Clamp(ArgGet(args, "w", DefaultW), MaxWidth),
                  !.height = Clamp(ArgGet(args, "h", DefaultH), MaxHeight),
                  !.zoom = ArgGet(args, "zoom", Fix(1)),
                  !.max_iter = Clamp(ArgGet(args, "iter", DefaultIter), MaxIter),
                  !.bound = FractalBound]]
    /\ UNCHANGED <<queue, heap, kvars, vvars>>

\* the handler raised: Flask answers 500 and the handler's arrays are freed
Raised(r, loc) ==
    /\ req' = [req EXCEPT ![r].pc = "done", ![r].status = 500,
                          ![r].loc = NoLocals]
    /\ heap' = IF loc.z = Empty THEN heap
               ELSE [z |-> loc.z, fractal |-> loc.fractal]

\* lines 80-85 (generate_fractal) and 40-46 (light_fractal): the grid and
\* the two zeroed arrays
BuildGrid(r) ==
    /\ req[r].pc = "grid"
    /\ LET light == req[r].route = "light"
           loc == req[r].loc
           width == IF light THEN LightWidth ELSE loc.width
           height == IF light THEN LightHeight ELSE loc.height
           zoom == IF light THEN Fix(1) ELSE loc.zoom
       IN IF zoom = 0 \/ width < 0 \/ height < 0
          THEN \* ZeroDivisionError (-2.5/zoom), ValueError (np.linspace)
               Raised(r, loc)
          ELSE LET c == Grid(FDiv(XMin * FixScale, zoom),
                             FDiv(XMax * FixScale, zoom),
                             FDiv(YMin * FixScale, zoom),
                             FDiv(YMax * FixScale, zoom), width, height)
               IN /\ req' = [req EXCEPT
                       ![r].pc = "loop",
                       ![r].loc = [width |-> width, height |-> height,
                                   zoom |-> zoom,
                                   max_iter |-> IF light THEN LightIter
                                                ELSE loc.max_iter,
                                   bound |-> IF light THEN LightBound
                                             ELSE FractalBound,
                                   c |-> c,
                                   z |-> NpZeros(DOMAIN c, heap.z, CZero),
                                   fractal |-> NpZeros(DOMAIN c, heap.fractal, 0),
                                   i |-> 0]]
                  /\ UNCHANGED heap
    /\ UNCHANGED <<queue, kvars, vvars>>

\* lines 87-90 and 48-51: one pass of the loop
LoopStep(r) ==
    /\ req[r].pc = "loop"
    /\ req[r].loc.i < req[r].loc.max_iter
    /\ LET loc == req[r].loc
           mask == Mask(loc.z, loc.bound)
       IN req' = [req EXCEPT ![r].loc =
              [loc EXCEPT !.z = UpdateZ(loc.z, loc.c, mask),
                          !.fractal = UpdateFractal(loc.fractal, mask, loc.i),
                          !.i = loc.i + 1]]
    /\ UNCHANGED <<queue, heap, kvars, vvars>>

\* range(max_iter) is exhausted
LoopExit(r) ==
    /\ req[r].pc = "loop"
    /\ req[r].loc.i >= req[r].loc.max_iter
    /\ req' = [req EXCEPT ![r].pc = "render"]
    /\ UNCHANGED <<queue, heap, kvars, vvars>>

\* lines 92-102 and 53-63: draw fractal.T and answer with the PNG.  For an
\* empty array matplotlib either raises or writes an image: both are kept.
Render(r) ==
    /\ req[r].pc = "render"
    /\ LET loc == req[r].loc
       IN \E ok \in BOOLEAN :
            /\ (loc.width >= 1 /\ loc.height >= 1) => ok
            /\ IF ok
               THEN /\ req' = [req EXCEPT ![r].pc = "done", ![r].status = 200,
                                          ![r].body = Transpose(loc.fractal),
                                          ![r].loc = [NoLocals EXCEPT
                                              !.width = loc.width,
                                              !.height = loc.height,
                                              !.zoom = loc.zoom,
                                              !.max_iter = loc.max_iter,
                                              !.bound = loc.bound]]
                    /\ heap' = [z |-> loc.z, fractal |-> loc.fractal]
               ELSE Raised(r, loc)
    /\ UNCHANGED <<queue, kvars, vvars>>

\* the queries of the requests: none at all, or w, h, zoom and iter
Query(ws, hs, zooms, iters) ==
    {[k \in {"w", "h", "zoom", "iter"} |->
        CASE k = "w" -> w [] k = "h" -> h [] k = "zoom" -> zm [] OTHER -> it] :
        w \in ws, h \in hs, zm \in zooms, it \in iters}

SmallArgs ==
    {Empty} \cup Query({-1, 0, 3}, {0, 3}, {Fix(-1), 0, Fix(2)}, {0, 4})

BigArgs ==
    Query({MaxWidth - 1, MaxWidth, MaxWidth + 1}, {MaxHeight, MaxHeight + 2000},
          {Fix(1)}, {MaxIter - 1, MaxIter, MaxIter + 1})

\* ------------------------------------------------------------ the viewer
MaxFailedLoads == 3
MaxTimers == 3

IterLow == 10
IterHigh == 100
InitialSpeed == 500
SpeedCap == 2000
SlowLoad == 2000

\* milliseconds in the unit of cycleSpeed: with fifths, * 1.2 and * 0.8 are exact
Ms(n) == n * 5

\* the positions the user drags the speed slider to (min 100, max 2000, step 50)
SliderValues == {100, 500, 2000}

\* the response times Date.now() measures, in milliseconds
LoadTimes == {0, 90, 401, 450, 1700, 2500}

\* the state after the page's script has run: lines 394-407, and the <img>
\* of line 386 loading /fractal?w=800&h=600&iter=10
ViewerScriptLoaded ==
    /\ currentIter = 10
    /\ cycleDirection = 1
    /\ isCycling = TRUE
    /\ cycleSpeed = Ms(InitialSpeed)
    /\ cycleTimer = 0
    /\ lastLoadTime = 0
    /\ failedLoads = 0
    /\ timers = {}
    /\ image = [loading |-> TRUE, iter |-> 10, stamped |-> FALSE]
    /\ started = FALSE

\* setTimeout: the id of the new timeout
setTimeout(pending) ==
    CHOOSE t \in 1 .. Cardinality(pending) + 1 : t \notin pending

\* startCycle, on the pair (pending timeouts, cycleTimer)
startCycle(tm) ==
    LET pending == IF tm.cycleTimer # 0 THEN tm.timers \ {tm.cycleTimer}
                   ELSE tm.timers
        t == setTimeout(pending)
    IN [timers |-> pending \cup {t}, cycleTimer |-> t]

\* stopCycle
MutStopCycleForgets(tm) == [timers |-> tm.timers, cycleTimer |-> 0]
stopCycle(tm) ==
    IF tm.cycleTimer # 0
    THEN [timers |-> tm.timers \ {tm.cycleTimer}, cycleTimer |-> 0]
    ELSE tm

\* restartCycle
restartCycle(tm) == startCycle(stopCycle(tm))

Timing == [timers |-> timers, cycleTimer |-> cycleTimer]

\* the model follows at most MaxTimers pending timeouts
CanSetTimeout == Cardinality(timers) < MaxTimers

\* loadNextIteration, lines 485-494: step and bounce between 10 and 100
MutBounceLate(iter, dir) ==
    LET n == iter + dir
    IN IF n > IterHigh THEN [iter |-> IterHigh, dir |-> -1]
       ELSE IF n < IterLow THEN [iter |-> IterLow, dir |-> 1]
       ELSE [iter |-> n, dir |-> dir]
Bounce(iter, dir) ==
    LET n == iter + dir
    IN IF n >= IterHigh THEN [iter |-> IterHigh, dir |-> -1]
       ELSE IF n <= IterLow THEN [iter |-> IterLow, dir |-> 1]
       ELSE [iter |-> n, dir |-> dir]

\* image.onload, lines 532-538: the cycle speed after a load of `load` ms
AdjustSpeed(speed, load) ==
    IF 25 * load > 4 * speed          \* lastLoadTime > cycleSpeed * 0.8
    THEN Min(Ms(SpeedCap), 6 * load)  \* Math.min(2000, lastLoadTime * 1.2)
    ELSE speed

\* DOMContentLoaded: init()
ViewerInit ==
    /\ ~started
    /\ CanSetTimeout
    /\ started' = TRUE
    /\ LET tm == startCycle(Timing)
       IN timers' = tm.timers /\ cycleTimer' = tm.cycleTimer
    /\ UNCHANGED <<currentIter, cycleDirection, isCycling, cycleSpeed,
                   lastLoadTime, failedLoads, image>>
    /\ UNCHANGED <<kvars, svars>>

\* a timeout fires: loadNextIteration().  The delays are 100 ms and more,
\* and DOMContentLoaded is dispatched when the parser ends, so init() has run.
TimerFire(t) ==
    /\ started
    /\ t \in timers
    /\ IF ~isCycling
       THEN /\ timers' = timers \ {t}
            /\ UNCHANGED <<currentIter, cycleDirection, cycleTimer, image>>
       ELSE LET b == Bounce(currentIter, cycleDirection)
                n == setTimeout(timers \ {t})
            IN /\ currentIter' = b.iter
               /\ cycleDirection' = b.dir
               /\ image' = [loading |-> TRUE, iter |-> b.iter, stamped |-> TRUE]
               /\ timers' = (timers \ {t}) \cup {n}
               /\ cycleTimer' = n
    /\ UNCHANGED <<isCycling, cycleSpeed, lastLoadTime, failedLoads, started>>
    /\ UNCHANGED <<kvars, svars>>

\* the Pause / Resume button: toggleCycle()
ToggleCycle ==
    /\ isCycling' = ~isCycling
    /\ LET tm == IF ~isCycling THEN startCycle(Timing) ELSE stopCycle(Timing)
       IN timers' = tm.timers /\ cycleTimer' = tm.cycleTimer
    /\ ~isCycling => CanSetTimeout
    /\ UNCHANGED <<currentIter, cycleDirection, cycleSpeed, lastLoadTime,
                   failedLoads, image, started>>
    /\ UNCHANGED <<kvars, svars>>

\* the speed slider's input listener, registered by init()
SpeedInput(v) ==
    /\ started
    /\ isCycling => CanSetTimeout
    /\ cycleSpeed' = Ms(v)
    /\ LET tm == IF isCycling THEN restartCycle(Timing) ELSE Timing
       IN timers' = tm.timers /\ cycleTimer' = tm.cycleTimer
    /\ UNCHANGED <<currentIter, cycleDirection, isCycling, lastLoadTime,
                   failedLoads, image, started>>
    /\ UNCHANGED <<kvars, svars>>

\* image.onload, with the response time the two Date.now() readings give
ImageLoad(load) ==
    /\ image.loading
    /\ image.stamped \/ load = 0
    /\ load > SlowLoad => failedLoads < MaxFailedLoads
    /\ image' = [image EXCEPT !.loading = FALSE]
    /\ lastLoadTime' = load
    /\ failedLoads' = IF load > SlowLoad THEN failedLoads + 1 ELSE 0
    /\ cycleSpeed' = AdjustSpeed(cycleSpeed, load)
    /\ UNCHANGED <<currentIter, cycleDirection, isCycling, cycleTimer, timers,
                   started>>
    /\ UNCHANGED <<kvars, svars>>

\* image.onerror
ImageError ==
    /\ image.loading
    /\ failedLoads < MaxFailedLoads
    /\ isCycling => CanSetTimeout
    /\ image' = [image EXCEPT !.loading = FALSE]
    /\ failedLoads' = failedLoads + 1
    /\ LET tm == IF isCycling THEN startCycle(Timing) ELSE Timing
       IN timers' = tm.timers /\ cycleTimer' = tm.cycleTimer
    /\ UNCHANGED <<currentIter, cycleDirection, isCycling, cycleSpeed,
                   lastLoadTime, started>>
    /\ UNCHANGED <<kvars, svars>>

\* ------------------------------------------------- the specifications
KernelIdleInit ==
    /\ kc = Empty /\ kz = Empty /\ kfractal = Empty
    /\ ki = 0 /\ kmax = 0 /\ kbound = 0

Init ==
    /\ ServerIdleInit
    /\ ViewerScriptLoaded
    /\ KernelIdleInit

Next ==
    \E r \in Requests :
        \/ Arrive(r)
        \/ Accept(r, {"light", "fractal"})
        \/ ParseArgs(r, SmallArgs)
        \/ BuildGrid(r)
        \/ LoopStep(r)
        \/ LoopExit(r)
        \/ Render(r)

Spec == Init /\ [][Next]_vars

\* one /fractal request with a query around the clamps
NextClamp ==
    \/ Arrive(1)
    \/ Accept(1, {"fractal"})
    \/ ParseArgs(1, BigArgs)
    \/ BuildGrid(1)
    \/ LoopStep(1)
    \/ LoopExit(1)
    \/ Render(1)

SpecClamp == Init /\ [][NextClamp]_vars

\* /fractal requests on one 3x3 grid that differ in zoom and in the budget
BudgetArgs == Query({3}, {3}, {Fix(-1), Fix(1), Fix(2)}, 1 .. LongestBudget)

NextBudget ==
    \E r \in Requests :
        \/ Arrive(r)
        \/ Accept(r, {"fractal"})
        \/ ParseArgs(r, BudgetArgs)
        \/ BuildGrid(r)
        \/ LoopStep(r)
        \/ LoopExit(r)
        \/ Render(r)

SpecBudget == Init /\ [][NextBudget]_vars

\* the viewer page on its own
ViewerStartInit ==
    /\ ViewerScriptLoaded
    /\ ServerIdleInit
    /\ KernelIdleInit

ViewerNext ==
    \/ ViewerInit
    \/ \E t \in timers : TimerFire(t)
    \/ ToggleCycle
    \/ \E v \in SliderValues : SpeedInput(v)
    \/ \E load \in LoadTimes : ImageLoad(load)
    \/ ImageError

SpecViewer == ViewerStartInit /\ [][ViewerNext]_vars

\* ------------------------------------------------------------- C2
ValidInputs(loc) == loc.width >= 1 /\ loc.height >= 1 /\ loc.max_iter >= 1

InRange(a, max) == \A p \in DOMAIN a : 0 <= a[p] /\ a[p] < max

\* C2: for valid inputs (width, height, max_iterations >= 1) every entry of
\* the iteration field lies in [0, max_iterations): in the array the loop
\* works on after every pass, and in the field that is returned.
C2_EntriesInRange ==
    \A r \in Requests :
        ValidInputs(req[r].loc) =>
            /\ req[r].pc \in {"loop", "render"} =>
                   InRange(req[r].loc.fractal, req[r].loc.max_iter)
            /\ req[r].pc = "done" /\ req[r].status = 200 =>
                   InRange(req[r].body, req[r].loc.max_iter)

\* a returned field of a /fractal request that holds both 0 < k and the
\* last index max_iterations - 1
C2_Witness ==
    \E r \in Requests :
        /\ req[r].pc = "done" /\ req[r].status = 200
        /\ req[r].route = "fractal"
        /\ ValidInputs(req[r].loc)
        /\ \E p \in DOMAIN req[r].body : req[r].body[p] = req[r].loc.max_iter - 1
        /\ \E p \in DOMAIN req[r].body :
              req[r].body[p] > 0 /\ req[r].body[p] < req[r].loc.max_iter - 1

\* ------------------------------------------------------------- C4
Evaluating(r) == req[r].route = "fractal" /\ req[r].pc \in {"grid", "loop", "render"}

\* C4: the width and height that reach the evaluator of a /fractal request
\* are the requested ones when these are at most 5000, and 5000 when they
\* are above; the iteration count is the requested one when at most 2000,
\* and 2000 above; so the loop never runs more than 2000 passes nor on more
\* than 5000 columns or rows.
C4_Clamped ==
    \A r \in Requests :
        Evaluating(r) =>
            LET w == ArgGet(req[r].args, "w", DefaultW)
                h == ArgGet(req[r].args, "h", DefaultH)
                it == ArgGet(req[r].args, "iter", DefaultIter)
                loc == req[r].loc
            IN /\ loc.width = (IF w > 5000 THEN 5000 ELSE w)
               /\ loc.height = (IF h > 5000 THEN 5000 ELSE h)
               /\ loc.max_iter = (IF it > 2000 THEN 2000 ELSE it)
               /\ loc.i <= 2000
               /\ \A p \in DOMAIN loc.c : p[1] < 5000 /\ p[2] < 5000

\* a request for 5001 columns and 2001 passes whose loop has run on 5000
\* columns for 2000 passes
C4_Witness ==
    \E r \in Requests :
        /\ Evaluating(r)
        /\ req[r].args["w"] = 5001 /\ req[r].args["iter"] = 2001
        /\ req[r].args["h"] = 5000
        /\ req[r].pc = "render"
        /\ req[r].loc.i = 2000
        /\ <<4999, 4999>> \in DOMAIN req[r].loc.fractal

\* ------------------------------------------------------------- C5
InvalidQuery(args) ==
    \/ ArgGet(args, "w", DefaultW) <= 0
    \/ ArgGet(args, "h", DefaultH) <= 0
    \/ ArgGet(args, "iter", DefaultIter) <= 0
    \/ ArgGet(args, "zoom", Fix(1)) <= 0

\* C5: a /fractal request whose query has w <= 0, h <= 0, iter <= 0 or
\* zoom <= 0 is answered with an error and never reaches the grid
\* construction's result or the loop; the evaluator runs only with
\* width >= 1, height >= 1, max_iterations >= 1 and zoom > 0.
C5_InvalidRejected ==
    \A r \in Requests :
        req[r].route = "fractal" =>
            /\ req[r].pc \in {"loop", "render"} =>
                   ValidInputs(req[r].loc) /\ req[r].loc.zoom > 0
            /\ req[r].pc = "done" /\ InvalidQuery(req[r].args) =>
                   req[r].status # 200

\* ------------------------------------------------------------- C6
\* C6: with threaded=False at most one handler (one evaluation) is in
\* progress at any time, and a request that arrived meanwhile is still
\* waiting, untouched, in the queue.
C6_OneAtATime ==
    \A r \in Requests :
        InHandler(r) =>
            \A q \in Requests \ {r} :
                /\ ~InHandler(q)
                /\ req[q].pc \in {"new", "queued", "done"}
                /\ req[q].pc = "queued" => req[q].loc = NoLocals

\* a request waits in the queue while another's loop is under way
C6_Witness ==
    \E r, q \in Requests :
        /\ req[r].pc = "loop" /\ req[r].loc.i > 0
        /\ req[q].pc = "queued"
        /\ queue = <<q>>

\* ------------------------------------------------------------- C7
Answered(r) == req[r].pc = "done" /\ req[r].status = 200

SameParameters(r, q) ==
    /\ req[r].route = req[q].route
    /\ req[r].loc = req[q].loc

\* C7: two answered requests with the same route and the same parameters
\* (width, height, zoom, max_iterations, escape bound) carry the same
\* iteration field, whatever ran before each of them.
C7_FieldDependsOnParametersOnly ==
    \A r, q \in Requests :
        Answered(r) /\ Answered(q) /\ SameParameters(r, q) =>
            req[r].body = req[q].body

\* the same /fractal request answered twice, the second time after the
\* first has left its arrays behind, with a field that is not all zero
C7_Witness ==
    \E r, q \in Requests :
        /\ r < q
        /\ Answered(r) /\ Answered(q) /\ SameParameters(r, q)
        /\ req[r].route = "fractal"
        /\ heap.z # Empty
        /\ \E p \in DOMAIN req[q].body : req[q].body[p] > 0
        /\ \E p \in DOMAIN heap.z : heap.z[p] # CZero

\* ------------------------------------------------------------- C9
C9_InRange ==
    /\ currentIter >= 10 /\ currentIter <= 100
    /\ image.iter >= 10 /\ image.iter <= 100

C9_Step ==
    /\ (isCycling /\ \E t \in timers : TimerFire(t)) =>
           currentIter' = currentIter + cycleDirection
    /\ currentIter' # currentIter =>
           /\ isCycling /\ \E t \in timers : TimerFire(t)
           /\ image'.loading /\ image'.iter = currentIter'
    /\ (cycleDirection = 1 /\ cycleDirection' = -1) <=>
           (currentIter # 100 /\ currentIter' = 100)
    /\ (cycleDirection = -1 /\ cycleDirection' = 1) <=>
           (currentIter # 10 /\ currentIter' = 10)
    /\ image' # image /\ image'.loading => image'.iter = currentIter'

\* C9: currentIter stays within [10, 100] and so does the iter of every
\* image request; a tick of loadNextIteration while cycling moves
\* currentIter by exactly 1 in the current direction and nothing else moves
\* it; the direction turns to -1 exactly in the step that reaches 100 and
\* to +1 exactly in the step that reaches 10.
C9_CycleBounces == [](C9_InRange) /\ [][C9_Step]_vars

\* the cycle has climbed to 100 and is on its way down again, a request
\* for iter = 99 in flight
C9_Witness ==
    /\ currentIter = 99
    /\ cycleDirection = -1
    /\ image.loading /\ image.iter = 99 /\ image.stamped

\* ------------------------------------------------------------ C10
\* C10: when image.onload measures a response time above 80% of the cycle
\* interval, the new cycleSpeed is at least the cycleSpeed before the
\* handler ran and at most 2000 ms.
C10_SlowsDown ==
    [][(\E load \in LoadTimes : ImageLoad(load))
       /\ 25 * lastLoadTime' > 4 * cycleSpeed
           => cycleSpeed' >= cycleSpeed /\ cycleSpeed' <= Ms(2000)]_vars

\* ------------------------------------------------------------ C11
\* a step that issues an image request or moves the cycle
C11_Requests == image' # image /\ image'.loading

C11_QuietWhilePaused ==
    ~isCycling => ~C11_Requests /\ currentIter' = currentIter

\* The claim as stated: at most one cycle timer is pending, and while
\* isCycling is false none is pending and no image request is issued.
C11_NoTimerWhilePaused ==
    /\ [](Cardinality(timers) <= 1 /\ (~isCycling => timers = {}))
    /\ [][C11_QuietWhilePaused]_vars

C11_Step ==
    /\ C11_QuietWhilePaused
    /\ (isCycling /\ ~isCycling') => timers' = {}
    /\ (~isCycling /\ ~isCycling' /\ timers' # timers) =>
           \/ ~started /\ started'     \* the step is init()
           \/ timers' = {}

\* C11 (amended): at most one cycle timer is pending at any time; pausing
\* cancels the pending timer and, while paused, no image request is issued
\* and currentIter does not move; while paused no handler sets a timer
\* except init(), whose startCycle() does not look at isCycling, so a timer
\* is pending while paused only when the pause came before init().
C11_OneTimerQuietPause ==
    /\ [](/\ Cardinality(timers) <= 1
          /\ timers \subseteq {cycleTimer}
          /\ (~isCycling /\ ~started) => timers = {})
    /\ [][C11_Step]_vars

\* paused in mid-cycle, a request in flight: the timer is gone
C11_Witness ==
    /\ started
    /\ ~isCycling
    /\ timers = {}
    /\ currentIter > 10
    /\ image.loading /\ image.stamped

\* ------------------------------------------------------------ C12
\* requests r and q asked for the same grid, r with the smaller budget
C12_SameGrid(r, q) ==
    /\ Answered(r) /\ Answered(q)
    /\ req[r].route = "fractal" /\ req[q].route = "fractal"
    /\ req[r].loc.width = req[q].loc.width
    /\ req[r].loc.height = req[q].loc.height
    /\ req[r].loc.zoom = req[q].loc.zoom
    /\ req[r].loc.bound = req[q].loc.bound
    /\ 1 <= req[r].loc.max_iter
    /\ req[r].loc.max_iter <= req[q].loc.max_iter

\* C12: for the same grid and escape bound and budgets 1 <= M <= M', every
\* entry of the field computed with M equals min(the entry computed with
\* M', M - 1): the larger budget lowers no entry, and leaves unchanged the
\* entry of a point that left the active set before pass M - 1.
C12_BudgetTruncates ==
    \A r, q \in Requests :
        C12_SameGrid(r, q) =>
            /\ DOMAIN req[r].body = DOMAIN req[q].body
            /\ \A p \in DOMAIN req[r].body :
                  LET m == req[r].loc.max_iter
                      small == req[r].body[p]
                      large == req[q].body[p]
                  IN /\ small = Min(large, m - 1)
                     /\ large >= small
                     /\ small < m - 1 => large = small

\* two answered requests on the same grid with budgets M < M': one entry
\* grew past M - 1, another had escaped earlier and is the same in both
C12_Witness ==
    \E r, q \in Requests :
        /\ C12_SameGrid(r, q)
        /\ req[r].loc.max_iter + 1 < req[q].loc.max_iter
        /\ \E p \in DOMAIN req[r].body :
              /\ req[r].body[p] = req[r].loc.max_iter - 1
              /\ req[q].body[p] > req[r].body[p] + 1
        /\ \E p \in DOMAIN req[r].body :
              /\ req[r].body[p] > 0
              /\ req[r].body[p] < req[r].loc.max_iter - 1
              /\ req[q].body[p] = req[r].body[p]

\* ------------------------------------------- the loop on arbitrary grids
\* Sample points: c = (a + b i) / 4 for the a, b below
KRe == {-8, -4, 0, 1, 2}
KIm == {0, 4}
KPoints == {<<FDiv(Fix(a), 4), FDiv(Fix(b), 4)>> : a \in KRe, b \in KIm}

KernelInit ==
    /\ ServerIdleInit
    /\ ViewerScriptLoaded
    /\ \E n \in 1 .. KCells :
          /\ kc \in [1 .. n -> KPoints]
          /\ kz = NpZeros(1 .. n, Empty, CZero)
          /\ kfractal = NpZeros(1 .. n, Empty, 0)
    /\ ki = 0
    /\ kmax \in 1 .. LightIter
    /\ kbound \in {LightBound, FractalBound}

\* one pass of `for i in range(max_iter)`
KernelStep ==
    /\ ki < kmax
    /\ LET mask == Mask(kz, kbound)
       IN /\ kz' = UpdateZ(kz, kc, mask)
          /\ kfractal' = UpdateFractal(kfractal, mask, ki)
    /\ ki' = ki + 1
    /\ UNCHANGED <<kc, kmax, kbound>>
    /\ UNCHANGED <<svars, vvars>>

KernelNext == KernelStep

SpecKernel == KernelInit /\ [][KernelNext]_vars

\* ------------------------------------------------------------- C1
\* The orbit of the claim, followed without any mask: the smallest k in
\* [0, max) with |z_{k+1}| >= bound, and max - 1 when there is none.
RECURSIVE FirstEscape(_, _, _, _, _)
FirstEscape(c, z, k, max, bound) ==
    IF k >= max THEN max - 1
    ELSE LET zn == SqAdd(z, c)
         IN IF ~AbsLt(zn, bound) THEN k
            ELSE FirstEscape(c, zn, k + 1, max, bound)

\* C1: when the loop has run its max_iterations passes, the value recorded
\* for every sample point c is the smallest k in [0, max_iterations) with
\* |z_{k+1}| >= escape_bound on the orbit z_0 = 0, z_{n+1} = z_n^2 + c, and
\* max_iterations - 1 when the orbit stays below the bound within the budget.
C1_RecordedIsFirstEscape ==
    ki = kmax =>
        \A p \in DOMAIN kc :
            kfractal[p] = FirstEscape(kc[p], CZero, 0, kmax, kbound)

\* one point escaped strictly inside the budget, another never did
C1_Witness ==
    /\ ki = kmax
    /\ kmax > 3
    /\ \E p \in DOMAIN kc : kfractal[p] > 0 /\ kfractal[p] < kmax - 1
                             /\ ~AbsLt(kz[p], kbound)
    /\ \E q \in DOMAIN kc : kfractal[q] = kmax - 1 /\ AbsLt(kz[q], kbound)

\* ------------------------------------------------------------- C3
\* C3: a sample point at c = 0 keeps z = 0, is active in every pass, and
\* ends with max_iterations - 1 recorded (29 for a budget of 30).
C3_OriginNeverEscapes ==
    \A p \in DOMAIN kc :
        kc[p] = CZero =>
            /\ kz[p] = CZero
            /\ p \in Mask(kz, kbound)
            /\ ki > 0 => kfractal[p] = ki - 1
            /\ ki = kmax => kfractal[p] = kmax - 1

\* the known value: a 1x1 grid at c = 0, 30 passes, bound 4, entry 29
C3_Witness ==
    /\ DOMAIN kc = {1}
    /\ kc[1] = CZero
    /\ kmax = 30
    /\ kbound = 4
    /\ ki = kmax
    /\ kfractal[1] = 29

\* ------------------------------------------------------------- C8
C8_Step ==
    \A p \in DOMAIN kz :
        IF AbsLt(kz[p], kbound)
        THEN kfractal'[p] = ki
        ELSE /\ kz'[p] = kz[p]
             /\ kfractal'[p] = kfractal[p]
             /\ ~AbsLt(kz'[p], kbound)

\* C8: within one run of the loop, a point outside the active set stays
\* outside it and keeps its z and its recorded value in every later pass,
\* and a point inside it gets the pass's index recorded: the recorded value
\* is the last pass in which the point was active.
C8_FrozenOnceInactive == [][ki' = ki + 1 => C8_Step]_vars

\* a point that left the active set several passes ago
C8_Witness ==
    \E p \in DOMAIN kz :
        /\ ~AbsLt(kz[p], kbound)
        /\ kfractal[p] > 0
        /\ kfractal[p] + 3 < ki

=============================================================================
